---- MODULE Spec2Model ----
(***************************************************************************)
(* Model of src/main.py, the Streamlit dashboard "polar plant optimal EC". *)
(*                                                                         *)
(* Text is a sequence of Unicode code points.  The data directory is a     *)
(* sequence of entries in iterdir() order.  One script run is the chain    *)
(* load_environment_data -> load_growth_data -> load guard -> sidebar ->   *)
(* tab1 -> tab2 -> tab3; a change of the sidebar selectbox reruns it.      *)
(***************************************************************************)
EXTENDS Integers, Sequences, FiniteSets, TLC

VARIABLES
    dirExists,      \* DATA_DIR.exists()
    entries,        \* DATA_DIR.iterdir(): sequence of [name, rows, sheets]
    pc,             \* position of the script run
    env_data,       \* result of load_environment_data(): school -> rows
    growth_df,      \* result of load_growth_data(): sequence of rows
    errors,         \* messages passed to st.error, in order
    school_option,  \* value of the sidebar selectbox
    rendered,       \* the steps after the load guard that this run reached
    summary_df,     \* tab1: rows <<school, ec, count>>
    total_count,    \* tab1: len(growth_df)
    avg_temp,       \* tab1: mean temperature of all readings, as <<sum, n>>
    avg_hum,        \* tab1: mean humidity of all readings, as <<sum, n>>
    mean_df,        \* tab2: per-school sums and counts of the readings
    mean_weight,    \* tab3: rows [EC, sum, n] in ascending EC order
    best_ec,        \* tab3: EC of the largest mean fresh weight
    exception       \* the exception that ended the run, or "none"

vars == <<dirExists, entries, pc, env_data, growth_df, errors, school_option,
          rendered, summary_df, total_count, avg_temp, avg_hum, mean_df, mean_weight, best_ec,
          exception>>

----------------------------------------------------------------------------
(* Bounds of the model. *)

MaxEntries == 3
MaxSheets == 3
MaxAffix == 1

----------------------------------------------------------------------------
(* SCHOOL_EC: the keys in declaration order, and the mapping. *)

SongDo == <<49569, 46020, 44256>>
HaNeul == <<54616, 45720, 44256>>
ARa == <<50500, 46972, 44256>>
DongSan == <<46041, 49328, 44256>>

SCHOOL_KEYS == <<SongDo, HaNeul, ARa, DongSan>>

SCHOOL_EC == (SongDo :> 1) @@ (HaNeul :> 2) @@ (ARa :> 4) @@ (DongSan :> 8)

Schools == {SCHOOL_KEYS[i] : i \in 1..Len(SCHOOL_KEYS)}

\* "전체", the selectbox's first option
ALL == <<51204, 52404>>

----------------------------------------------------------------------------
(* unicodedata.normalize("NFC", text) on Hangul syllables, conjoining      *)
(* jamo and ASCII: canonical decomposition, then canonical composition.    *)
(* All these characters have combining class 0, so there is no reordering. *)

SBase == 44032
LBase == 4352
VBase == 4449
TBase == 4519
LCount == 19
VCount == 21
TCount == 28
NCount == VCount * TCount
SCount == LCount * NCount

IsSyllable(c) == SBase <= c /\ c < SBase + SCount
IsL(c) == LBase <= c /\ c < LBase + LCount
IsV(c) == VBase <= c /\ c < VBase + VCount
IsT(c) == TBase < c /\ c < TBase + TCount

DecomposeChar(c) ==
    IF IsSyllable(c)
    THEN LET SIndex == c - SBase
             L == LBase + (SIndex \div NCount)
             V == VBase + ((SIndex % NCount) \div TCount)
             T == TBase + (SIndex % TCount)
         IN  IF T = TBase THEN <<L, V>> ELSE <<L, V, T>>
    ELSE <<c>>

RECURSIVE Decompose(_)
Decompose(text) ==
    IF text = <<>> THEN <<>>
    ELSE DecomposeChar(Head(text)) \o Decompose(Tail(text))

\* The composition pass over decomposed text, from index i on.
RECURSIVE ComposeFrom(_, _)
ComposeFrom(text, i) ==
    IF i > Len(text) THEN <<>>
    ELSE IF IsL(text[i]) /\ i + 1 <= Len(text) /\ IsV(text[i + 1])
    THEN LET LIndex == text[i] - LBase
             VIndex == text[i + 1] - VBase
             code == SBase + (LIndex * VCount + VIndex) * TCount
         IN  IF i + 2 <= Len(text) /\ IsT(text[i + 2])
             THEN <<code + (text[i + 2] - TBase)>> \o ComposeFrom(text, i + 3)
             ELSE <<code>> \o ComposeFrom(text, i + 2)
    ELSE <<text[i]>> \o ComposeFrom(text, i + 1)

Compose(text) == ComposeFrom(text, 1)

\* normalize without the normalization: the text as it is
normalizeNone(text) == text

normalize(text) == Compose(Decompose(text))

----------------------------------------------------------------------------
(* str helpers: `in`, str.lower, and pathlib's PurePath.suffix. *)

Contains(hay, needle) ==
    \E i \in 0..(Len(hay) - Len(needle)) :
        \A k \in 1..Len(needle) : hay[i + k] = needle[k]

LowerChar(c) == IF 65 <= c /\ c <= 90 THEN c + 32 ELSE c

\* lower without the case folding
lowerNone(text) == text

lower(text) == [i \in 1..Len(text) |-> LowerChar(text[i])]

\* The largest index of a "." in name, 0 when there is none.
RECURSIVE rfindDot(_, _)
rfindDot(name, i) ==
    IF i = 0 THEN 0
    ELSE IF name[i] = 46 THEN i
    ELSE rfindDot(name, i - 1)

suffix(name) ==
    LET i == rfindDot(name, Len(name))
    IN  IF 1 < i /\ i < Len(name) THEN SubSeq(name, i, Len(name)) ELSE <<>>

DotCsv == <<46, 99, 115, 118>>
DotXlsx == <<46, 120, 108, 115, 120>>

----------------------------------------------------------------------------
(* Data loading. *)

EmptyMap == <<>>

\* df["학교"] = school on a parsed table (csv rows or sheet rows)
TagRows(rows, school) ==
    [i \in 1..Len(rows) |-> [f \in DOMAIN rows[i] \cup {"school"} |->
        IF f = "school" THEN school ELSE rows[i][f]]]

\* the school loop with an entry already stored kept (first match wins)
RECURSIVE EnvSchoolLoopKeepFirst(_, _, _, _)
EnvSchoolLoopKeepFirst(data, file, name, k) ==
    IF k > Len(SCHOOL_KEYS) THEN data
    ELSE LET school == SCHOOL_KEYS[k]
         IN  IF Contains(name, normalize(school))
             THEN EnvSchoolLoopKeepFirst(
                      data @@ (school :> TagRows(file.rows, school)),
                      file, name, k + 1)
             ELSE EnvSchoolLoopKeepFirst(data, file, name, k + 1)

\* for school in SCHOOL_EC.keys(): if normalize(school) in name: ...
RECURSIVE EnvSchoolLoop(_, _, _, _)
EnvSchoolLoop(data, file, name, k) ==
    IF k > Len(SCHOOL_KEYS) THEN data
    ELSE LET school == SCHOOL_KEYS[k]
         IN  IF Contains(name, normalize(school))
             THEN EnvSchoolLoop((school :> TagRows(file.rows, school)) @@ data,
                                file, name, k + 1)
             ELSE EnvSchoolLoop(data, file, name, k + 1)

\* for file in DATA_DIR.iterdir(): ...
RECURSIVE EnvFileLoop(_, _, _)
EnvFileLoop(data, dir, i) ==
    IF i > Len(dir) THEN data
    ELSE IF lower(suffix(dir[i].name)) # DotCsv
    THEN EnvFileLoop(data, dir, i + 1)
    ELSE EnvFileLoop(EnvSchoolLoop(data, dir[i], normalize(dir[i].name), 1),
                     dir, i + 1)

load_environment_data(exists, dir) ==
    IF ~exists
    THEN [data |-> EmptyMap, errors |-> <<"data folder not found">>]
    ELSE [data |-> EnvFileLoop(EmptyMap, dir, 1), errors |-> <<>>]

\* The index of the first entry with an .xlsx suffix, 0 when there is none.
RECURSIVE FirstXlsx(_, _)
FirstXlsx(dir, i) ==
    IF i > Len(dir) THEN 0
    ELSE IF lower(suffix(dir[i].name)) = DotXlsx THEN i
    ELSE FirstXlsx(dir, i + 1)

\* the frames concatenated last sheet first
RECURSIVE ConcatSheetsReversed(_, _)
ConcatSheetsReversed(sheets, k) ==
    IF k > Len(sheets) THEN <<>>
    ELSE ConcatSheetsReversed(sheets, k + 1)
         \o TagRows(sheets[k].rows, sheets[k].name)

\* frames of xls.sheet_names, concatenated in order
RECURSIVE ConcatSheets(_, _)
ConcatSheets(sheets, k) ==
    IF k > Len(sheets) THEN <<>>
    ELSE TagRows(sheets[k].rows, sheets[k].name) \o ConcatSheets(sheets, k + 1)

\* load_growth_data without the report of a missing workbook
load_growth_data_silent(exists, dir) ==
    IF ~exists
    THEN [df |-> <<>>, errors |-> <<"data folder not found">>]
    ELSE LET xlsx_file == FirstXlsx(dir, 1)
         IN  IF xlsx_file = 0
             THEN [df |-> <<>>, errors |-> <<>>]
             ELSE [df |-> ConcatSheets(dir[xlsx_file].sheets, 1),
                   errors |-> <<>>]

load_growth_data(exists, dir) ==
    IF ~exists
    THEN [df |-> <<>>, errors |-> <<"data folder not found">>]
    ELSE LET xlsx_file == FirstXlsx(dir, 1)
         IN  IF xlsx_file = 0
             THEN [df |-> <<>>, errors |-> <<"growth XLSX not found">>]
             ELSE [df |-> ConcatSheets(dir[xlsx_file].sheets, 1),
                   errors |-> <<>>]

----------------------------------------------------------------------------
(* Aggregation: the pandas calls of the three tabs.  A mean is kept as the *)
(* pair <<sum, n>>; two means compare by cross-multiplication.             *)

NaN == -1

RECURSIVE SumField(_, _)
SumField(rows, f) ==
    IF rows = <<>> THEN 0 ELSE Head(rows)[f] + SumField(Tail(rows), f)

Mean(rows, f) == <<SumField(rows, f), Len(rows)>>

\* len(growth_df[growth_df["학교"] == school])
CountSchool(df, school) ==
    Cardinality({i \in 1..Len(df) : df[i].school = school})

\* pd.concat(env_data.values()): the rows of every school of the mapping
\* (listed by school; only means, which do not depend on the order, use it)
RECURSIVE EnvAll(_, _)
EnvAll(data, k) ==
    IF k > Len(SCHOOL_KEYS) THEN <<>>
    ELSE (IF SCHOOL_KEYS[k] \in DOMAIN data THEN data[SCHOOL_KEYS[k]] ELSE <<>>)
         \o EnvAll(data, k + 1)

\* env_all.groupby("학교")[[...]].mean(): a school without rows has no row
GroupMeans(data) ==
    [s \in {t \in DOMAIN data : Len(data[t]) > 0} |->
        [temperature |-> Mean(data[s], "temperature"),
         humidity |-> Mean(data[s], "humidity"),
         ph |-> Mean(data[s], "ph"),
         ec |-> Mean(data[s], "ec")]]

\* growth_df["EC"] = growth_df["학교"].map(SCHOOL_EC)
MapEC(df) ==
    [i \in 1..Len(df) |-> [f \in DOMAIN df[i] \cup {"EC"} |->
        IF f = "EC"
        THEN (IF df[i].school \in DOMAIN SCHOOL_EC
              THEN SCHOOL_EC[df[i].school] ELSE NaN)
        ELSE df[i][f]]]

RECURSIVE SortedSeq(_)
SortedSeq(S) ==
    IF S = {} THEN <<>>
    ELSE LET m == CHOOSE x \in S : \A y \in S : x <= y
         IN  <<m>> \o SortedSeq(S \ {m})

\* growth_df.groupby("EC")["생중량(g)"].mean().reset_index():
\* NaN keys are dropped, the groups come in ascending EC order
GroupByEC(df) ==
    LET keys == SortedSeq({df[i].EC : i \in 1..Len(df)} \ {NaN})
        grp(e) == SelectSeq(df, LAMBDA r : r.EC = e)
    IN  [k \in 1..Len(keys) |->
            [EC |-> keys[k],
             sum |-> SumField(grp(keys[k]), "weight"),
             n |-> Len(grp(keys[k]))]]

\* the comparison with ties counted as smaller
MeanLessOrEqual(a, b) == a.sum * b.n <= b.sum * a.n

\* mean of row a < mean of row b
MeanLess(a, b) == a.sum * b.n < b.sum * a.n

\* Series.idxmax(): the first index holding the maximum
RECURSIVE IdxMaxFrom(_, _, _)
IdxMaxFrom(mw, i, best) ==
    IF i > Len(mw) THEN best
    ELSE IF MeanLess(mw[best], mw[i]) THEN IdxMaxFrom(mw, i + 1, i)
    ELSE IdxMaxFrom(mw, i + 1, best)

idxmax(mw) == IdxMaxFrom(mw, 2, 1)

----------------------------------------------------------------------------
(* One script run. *)

Options == <<ALL>> \o SCHOOL_KEYS

LoadEnv ==
    /\ pc = "load_env"
    /\ LET r == load_environment_data(dirExists, entries)
       IN  /\ env_data' = r.data
           /\ errors' = errors \o r.errors
    /\ pc' = "load_growth"
    /\ UNCHANGED <<dirExists, entries, growth_df, school_option, rendered,
                   summary_df, total_count, avg_temp, avg_hum, mean_df,
                   mean_weight, best_ec, exception>>

LoadGrowth ==
    /\ pc = "load_growth"
    /\ LET r == load_growth_data(dirExists, entries)
       IN  /\ growth_df' = r.df
           /\ errors' = errors \o r.errors
    /\ pc' = "guard"
    /\ UNCHANGED <<dirExists, entries, env_data, school_option, rendered,
                   summary_df, total_count, avg_temp, avg_hum, mean_df,
                   mean_weight, best_ec, exception>>

\* the load guard stopping only when both datasets are empty
GuardBoth ==
    /\ pc = "guard"
    /\ pc' = IF env_data = EmptyMap /\ Len(growth_df) = 0
             THEN "stopped" ELSE "sidebar"
    /\ UNCHANGED <<dirExists, entries, env_data, growth_df, errors,
                   school_option, rendered, summary_df, total_count, avg_temp,
                   avg_hum, mean_df, mean_weight, best_ec, exception>>

\* if not env_data or growth_df.empty: st.stop()
Guard ==
    /\ pc = "guard"
    /\ pc' = IF env_data = EmptyMap \/ Len(growth_df) = 0
             THEN "stopped" ELSE "sidebar"
    /\ UNCHANGED <<dirExists, entries, env_data, growth_df, errors,
                   school_option, rendered, summary_df, total_count, avg_temp,
                   avg_hum, mean_df, mean_weight, best_ec, exception>>

\* st.sidebar.selectbox: returns the widget's current value
Sidebar ==
    /\ pc = "sidebar"
    /\ rendered' = rendered \cup {"sidebar"}
    /\ pc' = "tab1"
    /\ UNCHANGED <<dirExists, entries, env_data, growth_df, errors,
                   school_option, summary_df, total_count, avg_temp, avg_hum,
                   mean_df, mean_weight, best_ec, exception>>

Tab1 ==
    /\ pc = "tab1"
    /\ rendered' = rendered \cup {"tab1"}
    /\ summary_df' = [k \in 1..Len(SCHOOL_KEYS) |->
                        <<SCHOOL_KEYS[k], SCHOOL_EC[SCHOOL_KEYS[k]],
                          CountSchool(growth_df, SCHOOL_KEYS[k])>>]
    /\ total_count' = Len(growth_df)
    /\ avg_temp' = Mean(EnvAll(env_data, 1), "temperature")
    /\ avg_hum' = Mean(EnvAll(env_data, 1), "humidity")
    /\ pc' = "tab2"
    /\ UNCHANGED <<dirExists, entries, env_data, growth_df, errors,
                   school_option, mean_df, mean_weight, best_ec, exception>>

\* env_data[school_option] raises KeyError for a school without an entry;
\* the raw-data expander and the CSV download come after it.
Tab2 ==
    /\ pc = "tab2"
    /\ mean_df' = GroupMeans(env_data)
    /\ IF school_option # ALL /\ school_option \notin DOMAIN env_data
       THEN /\ rendered' = rendered \cup {"tab2"}
            /\ exception' = "KeyError"
            /\ pc' = "raised"
       ELSE /\ rendered' = rendered \cup {"tab2", "env_export"}
            /\ exception' = exception
            /\ pc' = "tab3"
    /\ UNCHANGED <<dirExists, entries, env_data, growth_df, errors,
                   school_option, summary_df, total_count, avg_temp, avg_hum,
                   mean_weight, best_ec>>

\* idxmax of an empty Series raises ValueError
Tab3 ==
    /\ pc = "tab3"
    /\ growth_df' = MapEC(growth_df)
    /\ mean_weight' = GroupByEC(growth_df')
    /\ IF mean_weight' = <<>>
       THEN /\ rendered' = rendered \cup {"tab3"}
            /\ best_ec' = best_ec
            /\ exception' = "ValueError"
            /\ pc' = "raised"
       ELSE /\ rendered' = rendered \cup {"tab3", "growth_export"}
            /\ best_ec' = mean_weight'[idxmax(mean_weight')].EC
            /\ exception' = exception
            /\ pc' = "done"
    /\ UNCHANGED <<dirExists, entries, env_data, errors, school_option,
                   summary_df, total_count, avg_temp, avg_hum, mean_df>>

\* The user picks another option of the selectbox: Streamlit reruns the
\* script from the top.  The loaders are st.cache_data functions, and the
\* directory does not change, so they return what they returned before.
SelectSchool ==
    /\ "sidebar" \in rendered
    /\ pc \in {"done", "raised"}
    /\ \E k \in 1..Len(Options) :
        /\ Options[k] # school_option
        /\ school_option' = Options[k]
    /\ pc' = "load_env"
    /\ env_data' = EmptyMap
    /\ growth_df' = <<>>
    /\ errors' = <<>>
    /\ rendered' = {}
    /\ summary_df' = <<>>
    /\ total_count' = 0
    /\ avg_temp' = <<0, 0>>
    /\ avg_hum' = <<0, 0>>
    /\ mean_df' = EmptyMap
    /\ mean_weight' = <<>>
    /\ best_ec' = NaN
    /\ exception' = "none"
    /\ UNCHANGED <<dirExists, entries>>

Next ==
    \/ LoadEnv
    \/ LoadGrowth
    \/ Guard
    \/ Sidebar
    \/ Tab1
    \/ Tab2
    \/ Tab3
    \/ SelectSchool

----------------------------------------------------------------------------
(* Initial states: a data directory, and a run about to start. *)

RunStart(exists, dir) ==
    /\ dirExists = exists
    /\ entries = dir
    /\ pc = "load_env"
    /\ env_data = EmptyMap
    /\ growth_df = <<>>
    /\ errors = <<>>
    /\ school_option = ALL
    /\ rendered = {}
    /\ summary_df = <<>>
    /\ total_count = 0
    /\ avg_temp = <<0, 0>>
    /\ avg_hum = <<0, 0>>
    /\ mean_df = EmptyMap
    /\ mean_weight = <<>>
    /\ best_ec = NaN
    /\ exception = "none"

Reading(t, temp, hum, p, e) ==
    [time |-> t, temperature |-> temp, humidity |-> hum, ph |-> p, ec |-> e]

TableA == <<Reading(1, 20, 60, 6, 1)>>
TableB == <<Reading(1, 24, 50, 7, 2), Reading(2, 26, 54, 5, 4)>>
TableC == <<Reading(1, 22, 40, 6, 3), Reading(2, 18, 44, 6, 3)>>
TableEmpty == <<>>

Plant(w) == [leaf |-> 4, shoot |-> 50, weight |-> w]

Sheet1 == <<83, 104, 101, 101, 116, 49>>

Csv(name, rows) == [name |-> name, rows |-> rows, sheets |-> <<>>]
Xlsx(name, sheets) == [name |-> name, rows |-> <<>>, sheets |-> sheets]

BookA == <<[name |-> SongDo, rows |-> <<Plant(5), Plant(7)>>],
           [name |-> HaNeul, rows |-> <<Plant(8)>>]>>
BookB == <<[name |-> Sheet1, rows |-> <<Plant(9)>>],
           [name |-> ARa, rows |-> <<Plant(3)>>]>>
BookEmpty == <<[name |-> SongDo, rows |-> <<>>]>>

\* The entries a directory of Spec is drawn from.
Candidates ==
    { Csv(SongDo \o DotCsv, TableA),
      Csv(Decompose(SongDo) \o DotCsv, TableB),
      Csv(HaNeul \o <<46, 67, 83, 86>>, TableB),
      Csv(HaNeul \o <<95>> \o SongDo \o DotCsv, TableC),
      Csv(SongDo \o <<4540>> \o DotCsv, TableA),
      Csv(<<120>> \o DotCsv, TableA),
      Csv(ARa \o <<46, 116, 120, 116>>, TableA),
      Csv(DongSan \o DotCsv, TableEmpty),
      Xlsx(<<120>> \o DotXlsx, BookA),
      Xlsx(<<121, 46, 88, 76, 83, 88>>, BookB),
      Xlsx(<<122>> \o DotXlsx, BookEmpty) }

DistinctNames(seq) ==
    \A i, j \in 1..Len(seq) : i # j => seq[i].name # seq[j].name

Directories ==
    {d \in UNION {[1..n -> Candidates] : n \in 0..MaxEntries} : DistinctNames(d)}

Init ==
    \E exists \in BOOLEAN, dir \in Directories :
        /\ exists \/ dir = <<>>
        /\ RunStart(exists, dir)

Spec == Init /\ [][Next]_vars

\* Workbooks of up to MaxSheets sheets, between one environment file and a
\* second workbook.
SheetNames == {SongDo, HaNeul, ARa, Sheet1}

GrowthRowChoices ==
    { <<>>, <<Plant(6)>>, <<Plant(3)>>,
      <<Plant(4), Plant(8)>>, <<Plant(8), Plant(4)>> }

Workbooks ==
    {wb \in UNION {[1..n -> [name : SheetNames, rows : GrowthRowChoices]] :
                      n \in 1..MaxSheets} : DistinctNames(wb)}

InitGrowth ==
    \E wb \in Workbooks :
        RunStart(TRUE, <<Csv(SongDo \o DotCsv, TableA),
                         Xlsx(<<120>> \o DotXlsx, wb),
                         Xlsx(<<121, 46, 88, 76, 83, 88>>, BookB)>>)

SpecGrowth == InitGrowth /\ [][Next]_vars

\* File names prefix + word + postfix + ".csv", next to one workbook.
AffixChars == {95, 4540, 4352, 4449, 44032}

Affixes == UNION {[1..n -> AffixChars] : n \in 0..MaxAffix}

Words == {<<>>} \cup Schools \cup {Decompose(s) : s \in Schools}

InitNormalize ==
    \E pre \in Affixes, word \in Words, post \in Affixes :
        RunStart(TRUE, <<Csv(pre \o word \o post \o DotCsv, TableA),
                         Xlsx(<<120>> \o DotXlsx, BookA)>>)

SpecNormalize == InitNormalize /\ [][Next]_vars

----------------------------------------------------------------------------
(* Vocabulary of the properties. *)

EnvLoaded == pc # "load_env"
GrowthLoaded == pc \notin {"load_env", "load_growth"}
GuardDone == pc \notin {"load_env", "load_growth", "guard"}

CsvSuffixes ==
    {<<46, a, b, c>> : a \in {99, 67}, b \in {115, 83}, c \in {118, 86}}
XlsxSuffixes ==
    {<<46, a, b, c, d>> : a \in {120, 88}, b \in {108, 76}, c \in {115, 83},
                          d \in {120, 88}}

HasCsvSuffix(e) == suffix(e.name) \in CsvSuffixes
HasXlsxSuffix(e) == suffix(e.name) \in XlsxSuffixes

\* the normalized name of entry e contains identifier s
NamesSchool(e, s) == Contains(normalize(e.name), s)

\* the indices of the .csv entries naming s
MatchIdx(s) ==
    {j \in 1..Len(entries) : HasCsvSuffix(entries[j]) /\ NamesSchool(entries[j], s)}

MaxOf(S) == CHOOSE x \in S : \A y \in S : y <= x
MinOf(S) == CHOOSE x \in S : \A y \in S : x <= y

\* the first identifier, in declaration order, that entry e names
FirstNamed(e) ==
    LET ks == {k \in 1..Len(SCHOOL_KEYS) : NamesSchool(e, SCHOOL_KEYS[k])}
    IN  IF ks = {} THEN <<>> ELSE SCHOOL_KEYS[MinOf(ks)]

FirstIdx(s) ==
    {j \in 1..Len(entries) : HasCsvSuffix(entries[j]) /\ FirstNamed(entries[j]) = s}

\* readings as stored under identifier s
Stamped(rows, s) ==
    [i \in 1..Len(rows) |->
        [school |-> s, time |-> rows[i].time,
         temperature |-> rows[i].temperature, humidity |-> rows[i].humidity,
         ph |-> rows[i].ph, ec |-> rows[i].ec]]

----------------------------------------------------------------------------
\* C1: a .csv entry naming several identifiers is stored under the first of
\* them in declaration order only: every key of the mapping holds the rows of
\* the last entry whose first-named identifier it is, and an identifier that
\* is no entry's first-named one has no key.
C1_FirstMatchOnly ==
    EnvLoaded =>
        \A s \in Schools :
            IF FirstIdx(s) = {} THEN s \notin DOMAIN env_data
            ELSE /\ s \in DOMAIN env_data
                 /\ env_data[s] = Stamped(entries[MaxOf(FirstIdx(s))].rows, s)

\* C2: the keys of the mapping are exactly the known identifiers named by
\* some entry with a .csv extension in any letter case, every row under key s
\* is tagged s, and loading an existing directory reports and raises nothing.
C2_KeysTagsAndSkips ==
    EnvLoaded =>
        /\ DOMAIN env_data \subseteq Schools
        /\ DOMAIN env_data = {s \in Schools : MatchIdx(s) # {}}
        /\ \A s \in DOMAIN env_data : \A i \in 1..Len(env_data[s]) :
              env_data[s][i].school = s
        /\ pc = "load_growth" /\ dirExists => errors = <<>> /\ exception = "none"

\* C2 witness: a loaded mapping with a key, from a directory that also holds
\* an entry naming a school without a .csv extension and a .csv entry naming
\* no school.
C2_Witness ==
    /\ pc = "load_growth"
    /\ env_data # EmptyMap
    /\ \E i \in 1..Len(entries) : \E s \in Schools :
          ~HasCsvSuffix(entries[i]) /\ NamesSchool(entries[i], s)
          /\ s \notin DOMAIN env_data
    /\ \E j \in 1..Len(entries) :
          HasCsvSuffix(entries[j]) /\ FirstNamed(entries[j]) = <<>>

\* C3: an identifier named by several .csv entries holds exactly the rows of
\* the one enumerated last.
C3_LastMatchWins ==
    EnvLoaded =>
        \A s \in Schools :
            MatchIdx(s) # {} =>
                /\ s \in DOMAIN env_data
                /\ env_data[s] = Stamped(entries[MaxOf(MatchIdx(s))].rows, s)

\* C3 witness: two entries with different rows name the same identifier.
C3_Witness ==
    /\ EnvLoaded
    /\ \E s \in Schools : \E i, j \in MatchIdx(s) :
          i < j /\ entries[i].rows # entries[j].rows
          /\ Len(entries[i].rows) > 0 /\ Len(entries[j].rows) > 0

\* C4: a missing directory gives an empty mapping and an empty collection and
\* is reported by both loaders; a directory without a .csv entry naming a
\* school gives an empty mapping; one without an .xlsx entry gives an empty
\* collection and is reported; no exception escapes.
C4_EmptyOnMissing ==
    GrowthLoaded =>
        /\ ~dirExists =>
              /\ env_data = EmptyMap /\ growth_df = <<>>
              /\ errors = <<"data folder not found", "data folder not found">>
        /\ dirExists /\ (\A s \in Schools : MatchIdx(s) = {}) => env_data = EmptyMap
        /\ dirExists /\ (\A j \in 1..Len(entries) : ~HasXlsxSuffix(entries[j])) =>
              /\ growth_df = <<>>
              /\ errors = <<"growth XLSX not found">>
        /\ pc \in {"guard", "stopped"} => exception = "none"

\* C4 witness: an existing, non-empty directory with no matching file, after
\* both loaders returned.
C4_Witness ==
    /\ pc = "guard"
    /\ dirExists /\ Len(entries) >= 2
    /\ \A s \in Schools : MatchIdx(s) = {}
    /\ \A j \in 1..Len(entries) : ~HasXlsxSuffix(entries[j])
    /\ \E j \in 1..Len(entries) : HasCsvSuffix(entries[j])

\* C5: past the load guard, an empty mapping or an empty collection means the
\* run stopped with nothing rendered and nothing left to do; a step is
\* rendered only with both datasets non-empty, and the run stops only when
\* one of them is empty.
C5_HardStop ==
    /\ GuardDone /\ (env_data = EmptyMap \/ growth_df = <<>>) =>
          pc = "stopped" /\ rendered = {} /\ ~ENABLED Next
    /\ rendered # {} => env_data # EmptyMap /\ growth_df # <<>>
    /\ pc = "stopped" => env_data = EmptyMap \/ growth_df = <<>>
    /\ GuardDone /\ pc # "stopped" => "sidebar" \in rendered \/ pc = "sidebar"

\* C5 witness: a run stopped by an empty growth collection alone.
C5_Witness ==
    pc = "stopped" /\ env_data # EmptyMap /\ growth_df = <<>> /\ dirExists

----------------------------------------------------------------------------
(* Vocabulary of the growth properties. *)

XlsxIdx == {j \in 1..Len(entries) : HasXlsxSuffix(entries[j])}

\* the number of rows in the sheets before sheet k
RECURSIVE RowsBefore(_, _)
RowsBefore(sheets, k) ==
    IF k <= 1 THEN 0
    ELSE RowsBefore(sheets, k - 1) + Len(sheets[k - 1].rows)

\* a sheet row as loaded from the sheet called name
FromSheet(row, name) ==
    [school |-> name, leaf |-> row.leaf, shoot |-> row.shoot,
     weight |-> row.weight]

\* the growth rows whose school has target EC e
RowsOfEC(e) ==
    {i \in 1..Len(growth_df) :
        growth_df[i].school \in Schools /\ SCHOOL_EC[growth_df[i].school] = e}

ECsPresent == {e \in {SCHOOL_EC[s] : s \in Schools} : RowsOfEC(e) # {}}

RECURSIVE WeightOver(_)
WeightOver(idx) ==
    IF idx = {} THEN 0
    ELSE LET i == CHOOSE x \in idx : TRUE
         IN  growth_df[i].weight + WeightOver(idx \ {i})

\* mean weight of EC a < mean weight of EC b
LighterEC(a, b) ==
    WeightOver(RowsOfEC(a)) * Cardinality(RowsOfEC(b))
        < WeightOver(RowsOfEC(b)) * Cardinality(RowsOfEC(a))

TiedEC(a, b) == ~LighterEC(a, b) /\ ~LighterEC(b, a)

----------------------------------------------------------------------------
\* C6: the growth collection is the concatenation of the sheets of the first
\* .xlsx entry: sheet k's rows, in their order and tagged with the sheet's
\* name, follow the rows of the sheets before it, and nothing else is there.
C6_SheetsConcatenated ==
    pc \in {"guard", "stopped", "sidebar", "tab1", "tab2", "tab3"}
    /\ XlsxIdx # {} =>
        LET sheets == entries[MinOf(XlsxIdx)].sheets
        IN  /\ Len(growth_df) = RowsBefore(sheets, Len(sheets) + 1)
            /\ \A k \in 1..Len(sheets) : \A r \in 1..Len(sheets[k].rows) :
                  growth_df[RowsBefore(sheets, k) + r]
                      = FromSheet(sheets[k].rows[r], sheets[k].name)

\* C6 witness: the first of two workbooks has a first sheet of two different
\* rows and a non-empty sheet after it, and the loader has returned.
C6_Witness ==
    /\ pc = "guard"
    /\ Cardinality(XlsxIdx) >= 2
    /\ LET sheets == entries[MinOf(XlsxIdx)].sheets
       IN  /\ Len(sheets) >= 2
           /\ Len(sheets[1].rows) = 2
           /\ sheets[1].rows[1] # sheets[1].rows[2]
           /\ Len(sheets[2].rows) >= 1
           /\ sheets # entries[MaxOf(XlsxIdx)].sheets
    /\ Len(growth_df) >= 3

\* C7: the best EC has the maximal mean fresh weight among the EC values of
\* the growth records, and is the smallest EC value with that mean.
C7_BestEC ==
    pc = "done" =>
        /\ best_ec \in ECsPresent
        /\ \A e \in ECsPresent :
              /\ ~LighterEC(best_ec, e)
              /\ TiedEC(e, best_ec) => best_ec <= e

\* C7 witness: two EC values tie at the maximal mean, a smaller EC value has a
\* smaller mean, and the best EC is the smaller of the two tied ones.
C7_Witness ==
    /\ pc = "done"
    /\ \E a, b, c \in ECsPresent :
          /\ a < b /\ b < c
          /\ LighterEC(a, b) /\ TiedEC(b, c)
          /\ best_ec = b

\* C8: every row of every loaded dataset is tagged with a known identifier.
C8_EveryRowResolves ==
    /\ \A s \in DOMAIN env_data : \A i \in 1..Len(env_data[s]) :
          env_data[s][i].school \in DOMAIN SCHOOL_EC
    /\ \A i \in 1..Len(growth_df) : growth_df[i].school \in DOMAIN SCHOOL_EC

\* C9: with a non-empty mapping that lacks a known school and a non-empty
\* growth collection, no run ends in an exception.
C9_PartialDataRenders ==
    env_data # EmptyMap /\ DOMAIN env_data # Schools /\ growth_df # <<>>
        => exception = "none"

----------------------------------------------------------------------------
(* Vocabulary of the normalization properties. *)

\* word w occurs in name and no trailing-consonant jamo follows it
OccursUnextended(name, w) ==
    \E i \in 0..(Len(name) - Len(w)) :
        /\ \A k \in 1..Len(w) : name[i + k] = w[k]
        /\ i + Len(w) < Len(name) => ~IsT(name[i + Len(w) + 1])

\* C10 as stated: a .csv entry whose name holds identifier s, composed or
\* decomposed, is stored under s.
C10_EitherFormClassified ==
    EnvLoaded =>
        \A j \in 1..Len(entries) : \A s \in Schools :
            HasCsvSuffix(entries[j])
            /\ (Contains(entries[j].name, s)
                \/ Contains(entries[j].name, Decompose(s)))
            => s \in DOMAIN env_data

\* C10 amended: normalize is idempotent on every entry name, gives a name and
\* its decomposition the same result, maps both forms of every identifier to
\* the identifier, and a .csv entry whose name holds identifier s, composed
\* or decomposed and not followed by a trailing-consonant jamo, is stored
\* under s.
C10_NormalizeClassifies ==
    /\ \A j \in 1..Len(entries) :
          /\ normalize(normalize(entries[j].name)) = normalize(entries[j].name)
          /\ normalize(Decompose(entries[j].name)) = normalize(entries[j].name)
    /\ \A s \in Schools : normalize(s) = s /\ normalize(Decompose(s)) = s
    /\ EnvLoaded =>
        \A j \in 1..Len(entries) : \A s \in Schools :
            HasCsvSuffix(entries[j])
            /\ (OccursUnextended(entries[j].name, s)
                \/ OccursUnextended(entries[j].name, Decompose(s)))
            => /\ s \in DOMAIN env_data
               /\ env_data[s] = Stamped(entries[j].rows, s)

\* C10 witness: a .csv entry whose name holds an identifier in decomposed
\* form between two jamo was loaded under that identifier.
C10_Witness ==
    /\ pc = "load_growth"
    /\ \E s \in Schools :
          /\ Decompose(s) # s
          /\ Len(entries[1].name) = Len(Decompose(s)) + 2 + Len(DotCsv)
          /\ SubSeq(entries[1].name, 2, Len(Decompose(s)) + 1) = Decompose(s)
          /\ normalize(entries[1].name) # entries[1].name
          /\ s \in DOMAIN env_data

====
